---- MODULE Spec2Model ----
(***************************************************************************)
(* Model of the OAuth service of alquimia-oauth                            *)
(* (src/assets/oauth/p-oauth.js): one OAuth instance living in a browser   *)
(* page, its collaborators ($cookies, $http, $q, window.location) and the  *)
(* page life cycle (navigation to the authorization server, reload).       *)
(*                                                                         *)
(* JavaScript strings are sequences of one-character strings, so that      *)
(* split, join, substring, btoa, atob and encodeURIComponent are modelled  *)
(* by what they do.                                                        *)
(***************************************************************************)
EXTENDS Integers, Sequences, FiniteSets

(***************************************************************************)
(* Bounds of the model                                                     *)
(***************************************************************************)
\* login / tryLogin calls made during one page life
MaxCalls == 2
\* seconds the clock may advance
MaxTime == 1
\* length of the token fields given to saveToken on their own
MaxFieldLen == 2
\* length of the hashes given to decodeHash on their own
MaxHashLen == 4
\* length of the server URLs given to the constructor on their own
MaxServerLen == 3

(***************************************************************************)
(* JavaScript values                                                       *)
(***************************************************************************)
\* the value undefined and the value null, distinct from every string
Undefined == <<"<undefined>">>
Null == <<"<null>">>

\* ToBoolean on the values of the model: undefined, null and '' are falsy
Truthy(v) == v # Undefined /\ v # Null /\ v # <<>>

\* ToString inside a template literal or a join
JsToString(v) ==
  IF v = Undefined THEN <<"u", "n", "d", "e", "f", "i", "n", "e", "d">>
  ELSE IF v = Null THEN <<"n", "u", "l", "l">>
  ELSE v

\* String.prototype.substring(1)
Substring1(s) == IF s = <<>> THEN <<>> ELSE Tail(s)

\* String.prototype.charAt(0): '' when the string is empty
CharAt0(s) == IF s = <<>> THEN <<>> ELSE <<s[1]>>

\* String.prototype.split(sep) for a one-character separator; the result of
\* splitting '' is the one-element array ['']
RECURSIVE SplitFrom(_, _, _)
SplitFrom(s, sep, cur) ==
  IF s = <<>> THEN <<cur>>
  ELSE IF s[1] = sep THEN <<cur>> \o SplitFrom(Tail(s), sep, <<>>)
  ELSE SplitFrom(Tail(s), sep, Append(cur, s[1]))

Split(s, sep) == SplitFrom(s, sep, <<>>)

\* Array.prototype.join(sep): undefined and null elements give ''
JoinElem(v) == IF v = Undefined \/ v = Null THEN <<>> ELSE v

RECURSIVE Join(_, _)
Join(arr, sep) ==
  IF arr = <<>> THEN <<>>
  ELSE IF Len(arr) = 1 THEN JoinElem(arr[1])
  ELSE JoinElem(arr[1]) \o sep \o Join(Tail(arr), sep)

\* arr[i] of a JavaScript array, 0-based: undefined past the end
At(arr, i) == IF i + 1 \in 1..Len(arr) THEN arr[i + 1] ELSE Undefined

(***************************************************************************)
(* Character codes, base64 (btoa / atob), encodeURIComponent               *)
(***************************************************************************)
Lower == <<"a", "b", "c", "d", "e", "f", "g", "h", "i", "j", "k", "l", "m",
           "n", "o", "p", "q", "r", "s", "t", "u", "v", "w", "x", "y", "z">>
Upper == <<"A", "B", "C", "D", "E", "F", "G", "H", "I", "J", "K", "L", "M",
           "N", "O", "P", "Q", "R", "S", "T", "U", "V", "W", "X", "Y", "Z">>
Digits == <<"0", "1", "2", "3", "4", "5", "6", "7", "8", "9">>

IndexOf(seq, c) == CHOOSE i \in 1..Len(seq) : seq[i] = c
Has(seq, c) == \E i \in 1..Len(seq) : seq[i] = c

\* the punctuation the model uses, with its ASCII code
Punct == <<"#", "&", "/", ":", "=", "?", "_", ".", "-", " ">>
PunctCode == <<35, 38, 47, 58, 61, 63, 95, 46, 45, 32>>

CharCode(c) ==
  IF Has(Lower, c) THEN 96 + IndexOf(Lower, c)
  ELSE IF Has(Upper, c) THEN 64 + IndexOf(Upper, c)
  ELSE IF Has(Digits, c) THEN 47 + IndexOf(Digits, c)
  ELSE PunctCode[IndexOf(Punct, c)]

FromCharCode(n) ==
  IF n \in 97..122 THEN Lower[n - 96]
  ELSE IF n \in 65..90 THEN Upper[n - 64]
  ELSE IF n \in 48..57 THEN Digits[n - 47]
  ELSE Punct[IndexOf(PunctCode, n)]

\* the base64 alphabet
B64 == Upper \o Lower \o Digits \o <<"+", "/">>

\* window.btoa: three bytes give four sextets, '=' pads the last group
RECURSIVE btoaBytes(_)
btoaBytes(b) ==
  IF b = <<>> THEN <<>>
  ELSE IF Len(b) = 1 THEN
    <<B64[(b[1] \div 4) + 1], B64[((b[1] % 4) * 16) + 1], "=", "=">>
  ELSE IF Len(b) = 2 THEN
    <<B64[(b[1] \div 4) + 1],
      B64[((b[1] % 4) * 16 + (b[2] \div 16)) + 1],
      B64[((b[2] % 16) * 4) + 1], "=">>
  ELSE
    <<B64[(b[1] \div 4) + 1],
      B64[((b[1] % 4) * 16 + (b[2] \div 16)) + 1],
      B64[((b[2] % 16) * 4 + (b[3] \div 64)) + 1],
      B64[(b[3] % 64) + 1]>> \o btoaBytes(SubSeq(b, 4, Len(b)))

btoa(s) == btoaBytes([i \in 1..Len(s) |-> CharCode(s[i])])

\* window.atob: four sextets give three bytes, less the padded ones
Sextet(c) == IndexOf(B64, c) - 1

RECURSIVE atobBytes(_)
atobBytes(e) ==
  IF Len(e) < 4 THEN <<>>
  ELSE
    LET s1 == Sextet(e[1])
        s2 == Sextet(e[2])
    IN  IF e[3] = "=" THEN <<s1 * 4 + (s2 \div 16)>>
        ELSE IF e[4] = "=" THEN
          <<s1 * 4 + (s2 \div 16), (s2 % 16) * 16 + (Sextet(e[3]) \div 4)>>
        ELSE
          <<s1 * 4 + (s2 \div 16),
            (s2 % 16) * 16 + (Sextet(e[3]) \div 4),
            (Sextet(e[3]) % 4) * 64 + Sextet(e[4])>>
          \o atobBytes(SubSeq(e, 5, Len(e)))

atob(e) == LET b == atobBytes(e) IN [i \in 1..Len(b) |-> FromCharCode(b[i])]

\* encodeURIComponent: letters, digits and - _ . are kept, any other
\* character of the model becomes %XX
HexDigits == <<"0", "1", "2", "3", "4", "5", "6", "7", "8", "9",
               "A", "B", "C", "D", "E", "F">>

Unreserved(c) == Has(Lower, c) \/ Has(Upper, c) \/ Has(Digits, c)
                 \/ c \in {"-", "_", "."}

RECURSIVE encodeURIComponent(_)
encodeURIComponent(s) ==
  IF s = <<>> THEN <<>>
  ELSE (IF Unreserved(s[1]) THEN <<s[1]>>
        ELSE <<"%", HexDigits[(CharCode(s[1]) \div 16) + 1],
               HexDigits[(CharCode(s[1]) % 16) + 1]>>)
       \o encodeURIComponent(Tail(s))

\* ToNumber of a string of decimal digits; any other value is NaN
IsNumeric(v) == Truthy(v) /\ \A i \in 1..Len(v) : Has(Digits, v[i])

RECURSIVE DigitsValue(_)
DigitsValue(s) ==
  IF s = <<>> THEN 0
  ELSE DigitsValue(SubSeq(s, 1, Len(s) - 1)) * 10
       + (IndexOf(Digits, s[Len(s)]) - 1)

(***************************************************************************)
(* JavaScript objects: functions from property names to values             *)
(***************************************************************************)
EmptyObj == [k \in {} |-> Undefined]

\* o.k: undefined when the object has no such property
Get(o, k) == IF k \in DOMAIN o THEN o[k] ELSE Undefined

\* o.k = v
Put(o, k, v) == [x \in DOMAIN o \cup {k} |-> IF x = k THEN v ELSE o[x]]

(***************************************************************************)
(* String literals of the source                                           *)
(***************************************************************************)
K_access_token == <<"a", "c", "c", "e", "s", "s", "_", "t", "o", "k", "e", "n">>
K_token_type == <<"t", "o", "k", "e", "n", "_", "t", "y", "p", "e">>
K_scope == <<"s", "c", "o", "p", "e">>
K_expires_in == <<"e", "x", "p", "i", "r", "e", "s", "_", "i", "n">>
K_response_type == <<"r", "e", "s", "p", "o", "n", "s", "e", "_", "t", "y", "p", "e">>
K_client_id == <<"c", "l", "i", "e", "n", "t", "_", "i", "d">>
K_redirect_uri == <<"r", "e", "d", "i", "r", "e", "c", "t", "_", "u", "r", "i">>
K_grant_type == <<"g", "r", "a", "n", "t", "_", "t", "y", "p", "e">>
K_username == <<"u", "s", "e", "r", "n", "a", "m", "e">>
K_password == <<"p", "a", "s", "s", "w", "o", "r", "d">>

TYPE_CLIENT_CREDENTIALS ==
  <<"c", "l", "i", "e", "n", "t", "_", "c", "r", "e", "d", "e", "n", "t", "i", "a", "l", "s">>
TYPE_USER_CREDENTIALS == K_password
TYPE_IMPLICIT == <<"t", "o", "k", "e", "n">>
AUTHORIZE == <<"a", "u", "t", "h", "o", "r", "i", "z", "e">>
TOKEN == <<"t", "o", "k", "e", "n">>
DefaultCookieKey == <<"q", "O", "A", "u", "t", "h", "2">>
OAuthSegment == <<"o", "a", "u", "t", "h", "/">>
BearerPrefix == <<"B", "e", "a", "r", "e", "r", " ">>
BasicPrefix == <<"B", "a", "s", "i", "c">>
MsgNoUserPass == "Username and password not provided"

(***************************************************************************)
(* The constructor                                                         *)
(***************************************************************************)
\* the replacement appending '/' whatever the last character is
ReplaceTrailing_Always(server) == Append(server, "/")

\* server.replace(/([^\/])$/, '$1/'): a '/' is appended when the last
\* character is not '/'; a string that ends with '/' is left as it is
ReplaceTrailing(server) ==
  IF server # <<>> /\ server[Len(server)] # "/" THEN Append(server, "/")
  ELSE server

\* lines 42-46 and 51-53: the properties the constructor sets
NewInstance(server, clientId, cookieKey) ==
  [k \in {"TYPE_CLIENT_CREDENTIALS", "TYPE_USER_CREDENTIALS",
          "TYPE_IMPLICIT", "AUTHORIZE", "TOKEN", "CLIENT_ID",
          "SERVER", "COOKIE_KEY"} |->
    CASE k = "TYPE_CLIENT_CREDENTIALS" -> TYPE_CLIENT_CREDENTIALS
      [] k = "TYPE_USER_CREDENTIALS" -> TYPE_USER_CREDENTIALS
      [] k = "TYPE_IMPLICIT" -> TYPE_IMPLICIT
      [] k = "AUTHORIZE" -> AUTHORIZE
      [] k = "TOKEN" -> TOKEN
      [] k = "CLIENT_ID" -> clientId
      [] k = "SERVER" -> ReplaceTrailing(server) \o OAuthSegment
      [] k = "COOKIE_KEY" ->
           IF cookieKey = Undefined THEN DefaultCookieKey
           ELSE cookieKey]

\* the constructor without its test of the client id
Constructor_NoClientTest(server, clientId, cookieKey) ==
  IF ~Truthy(server) THEN
    [threw |-> TRUE, message |-> "OAuth: please provide the server URL",
     this |-> EmptyObj]
  ELSE
    [threw |-> FALSE, message |-> "",
     this |-> NewInstance(server, clientId, cookieKey)]

\* new OAuth(server, clientId, cookieKey): the instance, or the Error thrown
Constructor(server, clientId, cookieKey) ==
  IF ~Truthy(server) THEN
    [threw |-> TRUE, message |-> "OAuth: please provide the server URL",
     this |-> EmptyObj]
  ELSE IF ~Truthy(clientId) THEN
    [threw |-> TRUE, message |-> "OAuth: please provide the client ID",
     this |-> EmptyObj]
  ELSE
    [threw |-> FALSE, message |-> "",
     this |-> NewInstance(server, clientId, cookieKey)]

(***************************************************************************)
(* The collaborators: $cookies, $http.defaults, window.location            *)
(***************************************************************************)
\* a cookie written without a usable Expires attribute lasts for the
\* browser session
SessionCookie == -1
\* new Date() whose time value is NaN
InvalidDate == -2

\* $cookies.get(key): the browser drops an entry once its expiration has
\* passed
CookiesGet(cookies, nowMs, key) ==
  IF key \in DOMAIN cookies
     /\ (cookies[key].expires = SessionCookie \/ cookies[key].expires > nowMs)
  THEN cookies[key].value
  ELSE Undefined

\* $cookies.put(key, value, {expires}): 'expires=Invalid Date' is ignored
\* by the browser, which then keeps a session cookie
CookiesPut(cookies, key, value, expires) ==
  Put(cookies, key,
      [value |-> value,
       expires |-> IF expires = InvalidDate THEN SessionCookie ELSE expires])

\* $cookies.remove(key)
CookiesRemove(cookies, key) ==
  [k \in DOMAIN cookies \ {key} |-> cookies[k]]

\* $http.defaults before any login of the page
HttpDefaultsInit == [withCredentials |-> FALSE, Authorization |-> Undefined]

(***************************************************************************)
(* The methods of OAuth.  A method takes the world it runs in,             *)
(*   st = [this, cookies, http, hash, nav, now, effects],                  *)
(* and gives the world it leaves; effects lists, in program order, the     *)
(* calls it made to its collaborators.                                     *)
(***************************************************************************)
Effect(st, e) == [st EXCEPT !.effects = Append(@, e)]

\* setHttpDefault that enables credentialed requests and leaves the header
setHttpDefault_KeepHeader(st, accessToken) ==
  Effect([st EXCEPT !.http.withCredentials = TRUE], "http.defaults")

\* setHttpDefault(accessToken)
setHttpDefault(st, accessToken) ==
  Effect([st EXCEPT !.http =
            [withCredentials |-> TRUE,
             Authorization |-> BearerPrefix \o JsToString(accessToken)]],
         "http.defaults")

\* expiration.setTime(expiration.getTime() + data.expires_in * 1000)
\* (ToNumber of '' and of null is 0, of undefined and of other text NaN)
Expiration(nowMs, expires_in) ==
  IF IsNumeric(expires_in) THEN nowMs + DigitsValue(expires_in) * 1000
  ELSE IF expires_in = <<>> \/ expires_in = Null THEN nowMs
  ELSE InvalidDate

\* the encoding that leaves the scope out
EncodeCookie_NoScope(data) ==
  btoa(Join(<<Get(data, K_access_token), Get(data, K_token_type)>>, <<":">>))

\* btoa([access_token, token_type, scope].join(':'))
EncodeCookie(data) ==
  btoa(Join(<<Get(data, K_access_token), Get(data, K_token_type),
              Get(data, K_scope)>>, <<":">>))

\* saveToken(data)
saveToken(st, data) ==
  LET expiration == Expiration(st.now * 1000, Get(data, K_expires_in))
      cookie == EncodeCookie(data)
      put == Effect([st EXCEPT !.cookies =
                       CookiesPut(@, Get(st.this, "COOKIE_KEY"), cookie,
                                  expiration)],
                    "cookies.put")
  IN  setHttpDefault(put, Get(data, K_access_token))

\* one '&'-piece of the hash: hashObj[fragment[0]] = fragment[1] after
\* fragment = fragment.split('=')
RECURSIVE DecodePieces(_, _)
DecodePieces(pieces, hashObj) ==
  IF pieces = <<>> THEN hashObj
  ELSE LET fragment == Split(pieces[1], "=")
       IN  DecodePieces(Tail(pieces),
                        Put(hashObj, At(fragment, 0), At(fragment, 1)))

\* decodeHash(hash)
decodeHash(hash) ==
  IF Truthy(hash) THEN
    LET h == IF CharAt0(hash) = <<"/">> THEN Substring1(hash) ELSE hash
    IN  DecodePieces(Split(h, "&"), EmptyObj)
  ELSE EmptyObj

\* setSecret(clientSecret)
setSecret(st, clientSecret) ==
  [Effect(st, "console.warn") EXCEPT !.this = Put(@, "CLIENT_SECRET", clientSecret)]

\* logout that also takes the token out of $http.defaults
logout_ClearHeader(st) ==
  LET s1 == Effect([st EXCEPT !.this = Put(@, "accessToken", Null)],
                   "this.accessToken=")
      s2 == Effect([s1 EXCEPT !.cookies =
                      CookiesRemove(@, Get(st.this, "COOKIE_KEY"))],
                   "cookies.remove")
      s3 == [s2 EXCEPT !.http = HttpDefaultsInit]
  IN  Effect([s3 EXCEPT !.nav = <<"<reload>">>], "location.reload")

\* logout that leaves the cookie
logout_KeepCookie(st) ==
  LET s1 == Effect([st EXCEPT !.this = Put(@, "accessToken", Null)],
                   "this.accessToken=")
  IN  Effect([s1 EXCEPT !.nav = <<"<reload>">>], "location.reload")

\* logout()
logout(st) ==
  LET s1 == Effect([st EXCEPT !.this = Put(@, "accessToken", Null)],
                   "this.accessToken=")
      s2 == Effect([s1 EXCEPT !.cookies =
                      CookiesRemove(@, Get(st.this, "COOKIE_KEY"))],
                   "cookies.remove")
  IN  Effect([s2 EXCEPT !.nav = <<"<reload>">>], "location.reload")

(***************************************************************************)
(* login                                                                   *)
(***************************************************************************)
\* the URL of the application page, without its fragment
AppUrl == <<"h", "t", "t", "p", ":", "/", "/", "a", "p", "p", "/">>

\* window.location.href
Href(hash) == AppUrl \o hash

\* the names the token request reads without 'this.'
FreeNames == {"SERVER", "TOKEN", "CLIENT_ID", "CLIENT_SECRET"}

\* the outcome of a call of login: the world it leaves, the state of the
\* promise it returns, the requests it sent, and whether it threw instead
\* of returning a promise
Outcome(st, promise, reason) ==
  [st |-> st, promise |-> promise, reason |-> reason, sent |-> <<>>,
   threw |-> FALSE]

resolve(st) == Outcome(Effect(st, "resolve"), "resolved", "")
reject(st, reason) == Outcome(Effect(st, "reject"), "rejected", reason)
pending(st) == Outcome(st, "pending", "")

\* the hash left as it is
ClearHash_Keep(st) ==
  Effect(st, IF st.hasRouter THEN "$location.hash=" ELSE "location.hash=")

\* the hash is emptied through $location when ngRoute is registered and
\* through window.location otherwise
ClearHash(st) ==
  Effect([st EXCEPT !.hash = <<>>],
         IF st.hasRouter THEN "$location.hash=" ELSE "location.hash=")

\* this.accessToken = value
SetAccessToken(st, value) ==
  Effect([st EXCEPT !.this = Put(@, "accessToken", value)], "this.accessToken=")

\* the authorization URL with the page URL not encoded
AuthorizeUrl_Raw(this, type, href) ==
  Get(this, "SERVER") \o Get(this, "AUTHORIZE") \o <<"?">>
  \o Join(<<K_response_type \o <<"=">> \o type,
            K_client_id \o <<"=">> \o Get(this, "CLIENT_ID"),
            K_redirect_uri \o <<"=">> \o href>>, <<"&">>)

\* lines 176-186: the redirect to the authorization endpoint
AuthorizeUrl(this, type, href) ==
  Get(this, "SERVER") \o Get(this, "AUTHORIZE") \o <<"?">>
  \o Join(<<K_response_type \o <<"=">> \o type,
            K_client_id \o <<"=">> \o Get(this, "CLIENT_ID"),
            K_redirect_uri \o <<"=">> \o encodeURIComponent(href)>>, <<"&">>)

Redirect(st, type) ==
  pending(Effect([st EXCEPT !.nav = AuthorizeUrl(st.this, type, Href(st.hash))],
                 "location.href="))

\* lines 193-201: the request handed to $http
TokenRequest(st, type, data) ==
  [method |-> "POST",
   url |-> st.globals["SERVER"] \o st.globals["TOKEN"],
   Authorization |-> BasicPrefix \o btoa(JsToString(st.globals["CLIENT_ID"])
                                         \o <<":">>
                                         \o JsToString(st.globals["CLIENT_SECRET"])),
   data |-> Put(data, K_grant_type, type)]

\* lines 192-211: the token asked to the server
FromServer(st, type, data) ==
  IF Truthy(Get(st.this, "CLIENT_SECRET")) THEN
    IF FreeNames \subseteq DOMAIN st.globals THEN
      [pending(Effect(st, "$http")) EXCEPT !.sent = <<TokenRequest(st, type, data)>>]
    ELSE
      \* ReferenceError: SERVER is not defined
      [st |-> st, promise |-> "none", reason |-> "ReferenceError",
       sent |-> <<>>, threw |-> TRUE]
  ELSE
    pending(Effect(st, "console.error"))

\* the exhaustion step without its try-mode test
Exhausted_IgnoreTry(st, type, isTry, username, password) ==
  IF type = Get(st.this, "TYPE_USER_CREDENTIALS") THEN
    FromServer(st, type, Put(Put(EmptyObj, K_username, username),
                             K_password, password))
  ELSE IF type = Get(st.this, "TYPE_CLIENT_CREDENTIALS") THEN
    FromServer(st, type, EmptyObj)
  ELSE IF type = Get(st.this, "TYPE_IMPLICIT") THEN Redirect(st, type)
  ELSE pending(st)

\* lines 158-190: no source gave a token
Exhausted(st, type, isTry, username, password) ==
  IF isTry THEN reject(st, "")
  ELSE IF type = Get(st.this, "TYPE_USER_CREDENTIALS") THEN
    FromServer(st, type, Put(Put(EmptyObj, K_username, username),
                             K_password, password))
  ELSE IF type = Get(st.this, "TYPE_CLIENT_CREDENTIALS") THEN
    FromServer(st, type, EmptyObj)
  ELSE IF type = Get(st.this, "TYPE_IMPLICIT") THEN Redirect(st, type)
  ELSE pending(st)

\* the hash emptied by a navigation that loads the page again
TakeHashToken_Reload(st, hash) ==
  resolve(saveToken(SetAccessToken(
            Effect([ClearHash(st) EXCEPT !.nav = <<"<reload>">>], "location.reload"),
            Get(hash, K_access_token)), hash))

\* lines 142-152: the token of the hash is taken
TakeHashToken(st, hash) ==
  resolve(saveToken(SetAccessToken(ClearHash(st), Get(hash, K_access_token)), hash))

\* lines 125-156: the token from the hash
FromHash(st, type, isTry, username, password) ==
  LET s1 == Effect(st, "location.hash")
  IN  IF Truthy(Substring1(st.hash)) THEN
        LET hash == decodeHash(Substring1(st.hash))
            s2 == Effect(s1, "decodeHash")
        IN  IF Truthy(Get(hash, K_access_token)) THEN TakeHashToken(s2, hash)
            ELSE Exhausted(s2, type, isTry, username, password)
      ELSE Exhausted(s1, type, isTry, username, password)

\* line 118: atob(cookie).split(':')
DecodeCookie(cookie) == Split(atob(cookie), ":")

\* the cookie branch taking data[1] for data[0]
TakeCookieToken_Field1(st, cookie) ==
  LET data == DecodeCookie(cookie)
  IN  resolve(setHttpDefault(SetAccessToken(st, At(data, 1)), At(data, 1)))

\* lines 118-122: the token of the cookie is taken
TakeCookieToken(st, cookie) ==
  LET data == DecodeCookie(cookie)
  IN  resolve(setHttpDefault(SetAccessToken(st, At(data, 0)), At(data, 0)))

\* the sources in another order: the hash before the cookies
FromCookies_HashFirst(st, type, isTry, username, password) ==
  LET hashObj == decodeHash(Substring1(st.hash))
      cookie == CookiesGet(st.cookies, st.now * 1000, Get(st.this, "COOKIE_KEY"))
      s1 == Effect(st, "cookies.get")
  IN  IF Truthy(Substring1(st.hash)) /\ Truthy(Get(hashObj, K_access_token))
      THEN TakeHashToken(Effect(Effect(st, "location.hash"), "decodeHash"), hashObj)
      ELSE IF Truthy(cookie) THEN TakeCookieToken(s1, cookie)
      ELSE FromHash(s1, type, isTry, username, password)

\* lines 114-123: the token from cookies
FromCookies(st, type, isTry, username, password) ==
  LET cookie == CookiesGet(st.cookies, st.now * 1000, Get(st.this, "COOKIE_KEY"))
      s1 == Effect(st, "cookies.get")
  IN  IF Truthy(cookie) THEN TakeCookieToken(s1, cookie)
      ELSE FromHash(s1, type, isTry, username, password)

\* login that never takes the cached token
Cached_Never(st) == FALSE

\* line 109: the token is cached
Cached(st) == Truthy(Get(st.this, "accessToken"))

\* the precondition asking for a user name only
MissingUserPass_UserOnly(st, type, username, password) ==
  type = Get(st.this, "TYPE_USER_CREDENTIALS") /\ ~Truthy(username)

\* line 103: TYPE_USER_CREDENTIALS without user name and password
MissingUserPass(st, type, username, password) ==
  type = Get(st.this, "TYPE_USER_CREDENTIALS") /\ ~(Truthy(username) /\ Truthy(password))

\* login(type, isTry, username, password)
login(st, type, isTry, username, password) ==
  IF MissingUserPass(st, type, username, password) THEN reject(st, MsgNoUserPass)
  ELSE IF Cached(st) THEN resolve(st)
  ELSE FromCookies(st, type, isTry, username, password)

\* tryLogin(type)
tryLogin(st, type) == login(st, type, TRUE, Undefined, Undefined)

\* the success callback keeping the token without saveToken
onResponse_NoSave(st, responseData) ==
  resolve(SetAccessToken(st, Get(responseData, K_access_token)))

\* lines 202-205: the callback of a successful token response
onResponse(st, responseData) ==
  resolve(saveToken(SetAccessToken(st, Get(responseData, K_access_token)), responseData))

\* lines 206-208: the callback of a failed token request
onError(st) == pending(Effect(st, "console.error"))

(***************************************************************************)
(* Inputs of the model                                                     *)
(***************************************************************************)
Tok1 == <<"t", "o", "k", "1">>
Tok2 == <<"t", "o", "k", "2">>
Tok3 == <<"t", "o", "k", "3">>
Tok4 == <<"t", "o", "k", "4">>
Bearer == <<"b", "e", "a", "r", "e", "r">>
Read == <<"r", "e", "a", "d">>

TokenData(accessToken, tokenType, scope, expiresIn) ==
  Put(Put(Put(Put(EmptyObj, K_access_token, accessToken), K_token_type, tokenType),
          K_scope, scope), K_expires_in, expiresIn)

\* the arguments given to new OAuth(server, clientId)
ServerInputs == {<<"h", "t", "t", "p", ":", "/", "/", "s">>,
                 <<"h", "t", "t", "p", ":", "/", "/", "s", "/">>}
ClientId == <<"c", "i", "d">>

GrantTypes == {TYPE_CLIENT_CREDENTIALS, TYPE_USER_CREDENTIALS, TYPE_IMPLICIT}
Usernames == {Undefined, <<"u">>}
Passwords == {Undefined, <<"p">>}
Secrets == {<<"s">>}

\* the cookie a former page life may have left: (tok1, bearer, read),
\* expiring one second after the start
InitialCookies ==
  {EmptyObj,
   CookiesPut(EmptyObj, DefaultCookieKey,
              EncodeCookie(TokenData(Tok1, Bearer, Read, Undefined)), 1000)}

\* location.hash when the authorization server sends the browser back:
\* '#access_token=tok2&token_type=bearer' and, as $location rewrites it,
\* '#/access_token=tok2&token_type=bearer&scope=read&expires_in=1'
HashTok2 ==
  <<"#">> \o K_access_token \o <<"=">> \o Tok2
  \o <<"&">> \o K_token_type \o <<"=">> \o Bearer
HashTok2Slash ==
  <<"#", "/">> \o K_access_token \o <<"=">> \o Tok2
  \o <<"&">> \o K_token_type \o <<"=">> \o Bearer
  \o <<"&">> \o K_scope \o <<"=">> \o Read
  \o <<"&">> \o K_expires_in \o <<"=">> \o <<"1">>
\* a hash without access_token: '#top'
HashOther == <<"#", "t", "o", "p">>

AuthFragments == {HashTok2, HashTok2Slash}
InitialHashes == {<<>>, HashOther, HashTok2}

\* the data of a successful token response
ResponseDatas == {TokenData(Tok3, Bearer, Read, <<"1">>),
                  TokenData(Tok4, Bearer, Read, <<"2">>)}

\* global variables named as the free names of the token request, when the
\* page declares them
GlobalsDeclared ==
  [k \in FreeNames |->
     CASE k = "SERVER" -> <<"h", "t", "t", "p", ":", "/", "/", "g", "/">>
       [] k = "TOKEN" -> <<"t">>
       [] k = "CLIENT_ID" -> <<"g", "i", "d">>
       [] k = "CLIENT_SECRET" -> <<"g", "s">>]

(***************************************************************************)
(* State                                                                   *)
(***************************************************************************)
VARIABLES
  this,       \* the OAuth instance: its properties
  cookies,    \* $cookies: key -> [value, expires]
  http,       \* $http.defaults: withCredentials, headers.common.Authorization
  hash,       \* window.location.hash
  nav,        \* the navigation the page has asked for, Undefined if none
  now,        \* the clock, in seconds
  promises,   \* the promises login returned in this page life
  requests,   \* the token requests in flight: [promise, request]
  last        \* the last operation: arguments, world before, outcome

vars == <<this, cookies, http, hash, nav, now, promises, requests, last>>

\* the world a method runs in.  globals are the global variables of the
\* page named by FreeNames and hasRouter tells whether
\* angular.module('ngRoute') is registered: both belong to the page around
\* the service and are given with each call.
WorldOf(globals, hasRouter) ==
  [this |-> this, cookies |-> cookies, http |-> http, hash |-> hash,
   nav |-> nav, now |-> now, globals |-> globals, hasRouter |-> hasRouter,
   effects |-> <<>>]

World == WorldOf(EmptyObj, FALSE)

\* a call reads globals (token request) or hasRouter (token from the hash),
\* never both, so two pages give every behaviour of a call
Pages == {[globals |-> EmptyObj, hasRouter |-> FALSE],
          [globals |-> GlobalsDeclared, hasRouter |-> TRUE]}

Before ==
  [this |-> this, cookies |-> cookies, http |-> http, hash |-> hash,
   nav |-> nav, now |-> now]

Op(op, type, isTry, username, password, out, index) ==
  [op |-> op, type |-> type, isTry |-> isTry, username |-> username,
   password |-> password, before |-> Before, promise |-> out.promise,
   reason |-> out.reason, threw |-> out.threw, effects |-> out.st.effects,
   sent |-> out.sent, index |-> index]

NoArgs(st) == Outcome(st, "none", "")

Apply(st) ==
  /\ this' = st.this
  /\ cookies' = st.cookies
  /\ http' = st.http
  /\ hash' = st.hash
  /\ nav' = st.nav

Init ==
  /\ \E server \in ServerInputs :
       this = Constructor(server, ClientId, Undefined).this
  /\ cookies \in InitialCookies
  /\ http = HttpDefaultsInit
  /\ hash \in InitialHashes
  /\ nav = Undefined
  /\ now = 0
  /\ promises = <<>>
  /\ requests = <<>>
  /\ last = Op("init", Undefined, FALSE, Undefined, Undefined, NoArgs(World), 0)

\* a call of login or tryLogin: the promise it returns joins promises,
\* the request it sends joins requests
Called(op, type, isTry, username, password, out) ==
  /\ Apply(out.st)
  /\ promises' = IF out.threw THEN promises
                 ELSE Append(promises, [state |-> out.promise, reason |-> out.reason])
  /\ requests' = requests \o [i \in 1..Len(out.sent) |->
                                [promise |-> Len(promises) + 1, request |-> out.sent[i]]]
  /\ last' = Op(op, type, isTry, username, password, out,
                IF out.threw THEN 0 ELSE Len(promises) + 1)
  /\ UNCHANGED now

Login(type, isTry, username, password, globals, hasRouter) ==
  /\ Len(promises) < MaxCalls
  /\ Called("login", type, isTry, username, password,
            login(WorldOf(globals, hasRouter), type, isTry, username, password))

TryLogin(type, globals, hasRouter) ==
  /\ Len(promises) < MaxCalls
  /\ Called("tryLogin", type, TRUE, Undefined, Undefined,
            tryLogin(WorldOf(globals, hasRouter), type))

SetSecret(clientSecret) ==
  LET out == NoArgs(setSecret(World, clientSecret))
  IN  /\ Apply(out.st)
      /\ last' = Op("setSecret", Undefined, FALSE, Undefined, Undefined, out, 0)
      /\ UNCHANGED <<now, promises, requests>>

Logout ==
  LET out == NoArgs(logout(World))
  IN  /\ Apply(out.st)
      /\ last' = Op("logout", Undefined, FALSE, Undefined, Undefined, out, 0)
      /\ UNCHANGED <<now, promises, requests>>

Remove(seq, k) == [i \in 1..(Len(seq) - 1) |-> IF i < k THEN seq[i] ELSE seq[i + 1]]

\* the token endpoint answers request k with success
Response(k, responseData) ==
  /\ k \in 1..Len(requests)
  /\ LET out == onResponse(World, responseData)
         p == requests[k].promise
     IN  /\ Apply(out.st)
         /\ promises' = [promises EXCEPT ![p] = [state |-> out.promise, reason |-> out.reason]]
         /\ last' = Op("response", Undefined, FALSE, Undefined, Undefined, out, p)
  /\ requests' = Remove(requests, k)
  /\ UNCHANGED now

\* request k fails
ResponseError(k) ==
  /\ k \in 1..Len(requests)
  /\ LET out == onError(World)
     IN  /\ Apply(out.st)
         /\ last' = Op("responseError", Undefined, FALSE, Undefined, Undefined,
                       out, requests[k].promise)
  /\ requests' = Remove(requests, k)
  /\ UNCHANGED <<now, promises>>

\* a second passes
Tick ==
  /\ now < MaxTime
  /\ now' = now + 1
  /\ last' = Op("tick", Undefined, FALSE, Undefined, Undefined, NoArgs(World), 0)
  /\ UNCHANGED <<this, cookies, http, hash, nav, promises, requests>>

\* the page is loaded anew: the script state is lost, the instance is
\* constructed again; cookies and clock go on
Loaded(newHash) ==
  /\ \E server \in ServerInputs :
       this' = Constructor(server, ClientId, Undefined).this
  /\ http' = HttpDefaultsInit
  /\ hash' = newHash
  /\ nav' = Undefined
  /\ promises' = <<>>
  /\ requests' = <<>>
  /\ last' = Op("load", Undefined, FALSE, Undefined, Undefined, NoArgs(World), 0)
  /\ UNCHANGED <<cookies, now>>

\* location.reload() completes
Reloaded ==
  /\ nav = <<"<reload>">>
  /\ Loaded(hash)

\* the authorization server sends the browser back to the application
\* with the token in the fragment
AuthorizeReturn(fragment) ==
  /\ nav # Undefined
  /\ nav # <<"<reload>">>
  /\ Loaded(fragment)

Next ==
  \/ \E type \in GrantTypes, isTry \in BOOLEAN, username \in Usernames,
        password \in Passwords :
       \* the user name and the password are read for TYPE_USER_CREDENTIALS only
       /\ type # TYPE_USER_CREDENTIALS => username = Undefined /\ password = Undefined
       /\ \E page \in Pages :
            Login(type, isTry, username, password, page.globals, page.hasRouter)
  \/ \E type \in GrantTypes, page \in Pages :
       TryLogin(type, page.globals, page.hasRouter)
  \/ \E clientSecret \in Secrets : SetSecret(clientSecret)
  \/ Logout
  \/ \E k \in 1..MaxCalls, responseData \in ResponseDatas : Response(k, responseData)
  \/ \E k \in 1..MaxCalls : ResponseError(k)
  \/ Tick
  \/ Reloaded
  \/ \E fragment \in AuthFragments : AuthorizeReturn(fragment)

Spec == Init /\ [][Next]_vars

(***************************************************************************)
(* Properties                                                              *)
(***************************************************************************)
\* the world before the last operation
B == last.before

IsLoginCall == last.op \in {"login", "tryLogin"}
Did(e) == \E i \in 1..Len(last.effects) : last.effects[i] = e
Count(e) == Cardinality({i \in 1..Len(last.effects) : last.effects[i] = e})

\* the last call was TYPE_USER_CREDENTIALS without user name or password
LastMissingUserPass ==
  /\ last.type = TYPE_USER_CREDENTIALS
  /\ (last.username \in {Undefined, <<>>} \/ last.password \in {Undefined, <<>>})

\* what the world held before the last operation
HadToken == B.this # EmptyObj /\ "accessToken" \in DOMAIN B.this
            /\ B.this["accessToken"] \notin {Undefined, Null, <<>>}
HadCookie == DefaultCookieKey \in DOMAIN B.cookies
             /\ (B.cookies[DefaultCookieKey].expires = SessionCookie
                 \/ B.cookies[DefaultCookieKey].expires > B.now * 1000)
HadSecret == "CLIENT_SECRET" \in DOMAIN B.this
NothingChanged ==
  /\ this = B.this
  /\ cookies = B.cookies
  /\ http = B.http
  /\ hash = B.hash
  /\ nav = B.nav

\* 'Bearer tok1', 'Bearer tok2'
BearerTok1 ==
  <<"B", "e", "a", "r", "e", "r", " ", "t", "o", "k", "1">>
BearerTok2 ==
  <<"B", "e", "a", "r", "e", "r", " ", "t", "o", "k", "2">>
\* btoa('tok1:bearer:read')
CookieTok1 ==
  <<"d", "G", "9", "r", "M", "T", "p", "i", "Z", "W", "F", "y", "Z", "X",
    "I", "6", "c", "m", "V", "h", "Z", "A", "=", "=">>
\* btoa('tok2:bearer:')
CookieTok2 ==
  <<"d", "G", "9", "r", "M", "j", "p", "i", "Z", "W", "F", "y", "Z", "X",
    "I", "6">>
\* btoa('tok2:bearer:read')
CookieTok2Read ==
  <<"d", "G", "9", "r", "M", "j", "p", "i", "Z", "W", "F", "y", "Z", "X",
    "I", "6", "c", "m", "V", "h", "Z", "A", "=", "=">>
\* the authorization URL of the page without hash and of the page at '#top'
AuthorizeUrlPlain ==
  <<"h", "t", "t", "p", ":", "/", "/", "s", "/", "o", "a", "u", "t", "h",
    "/", "a", "u", "t", "h", "o", "r", "i", "z", "e", "?", "r", "e", "s",
    "p", "o", "n", "s", "e", "_", "t", "y", "p", "e", "=", "t", "o", "k",
    "e", "n", "&", "c", "l", "i", "e", "n", "t", "_", "i", "d", "=", "c",
    "i", "d", "&", "r", "e", "d", "i", "r", "e", "c", "t", "_", "u", "r",
    "i", "=", "h", "t", "t", "p", "%", "3", "A", "%", "2", "F", "%", "2",
    "F", "a", "p", "p", "%", "2", "F">>
AuthorizeUrlTop ==
  <<"h", "t", "t", "p", ":", "/", "/", "s", "/", "o", "a", "u", "t", "h",
    "/", "a", "u", "t", "h", "o", "r", "i", "z", "e", "?", "r", "e", "s",
    "p", "o", "n", "s", "e", "_", "t", "y", "p", "e", "=", "t", "o", "k",
    "e", "n", "&", "c", "l", "i", "e", "n", "t", "_", "i", "d", "=", "c",
    "i", "d", "&", "r", "e", "d", "i", "r", "e", "c", "t", "_", "u", "r",
    "i", "=", "h", "t", "t", "p", "%", "3", "A", "%", "2", "F", "%", "2",
    "F", "a", "p", "p", "%", "2", "F", "%", "2", "3", "t", "o", "p">>

\* a call of login with a ClientCredentials or UserCredentials grant that
\* finds no token in the cache, the cookies or the hash, outside try-mode
ExchangeCase ==
  /\ IsLoginCall
  /\ ~last.isTry
  /\ last.type \in {TYPE_CLIENT_CREDENTIALS, TYPE_USER_CREDENTIALS}
  /\ ~LastMissingUserPass
  /\ ~HadToken
  /\ ~HadCookie
  /\ B.hash \in {<<>>, HashOther}

\* C1: every failure of login is delivered through its promise: a call of
\* login returns a promise (it does not throw), a promise left pending by
\* the call has a token request in flight or the call navigated away, and
\* a failed token request rejects its promise.
C1_FailuresDelivered ==
  /\ IsLoginCall =>
       /\ ~last.threw
       /\ last.promise = "pending" => (last.sent # <<>> \/ Did("location.href="))
  /\ last.op = "responseError" => promises[last.index].state = "rejected"

\* C2: login with a ClientCredentials or UserCredentials grant, nothing
\* cached, stored or in the hash, outside try-mode and without setSecret,
\* is rejected and sends no request.
C2_NoSecretRejected ==
  (ExchangeCase /\ ~HadSecret) =>
    /\ last.promise = "rejected"
    /\ last.sent = <<>>
    /\ ~Did("$http")

\* C3 as stated: every operation that sets the in-memory credential also
\* writes the cookie and sets the default Authorization header in the same
\* step.
C3_SetWritesCookieAndHeader ==
  (Did("this.accessToken=") /\ last.op # "logout") =>
    (Did("cookies.put") /\ Did("http.defaults"))

\* C3 amended: every operation that sets the in-memory credential sets the
\* default Authorization header to 'Bearer ' and that token in the same
\* step; login from the hash and a successful token response also write the
\* cookie, login from the cookie leaves the cookie it read as it is.
C3_SetArmsHeader ==
  (Did("this.accessToken=") /\ last.op # "logout") =>
    /\ Did("http.defaults")
    /\ http.withCredentials
    /\ http.Authorization = BearerPrefix \o this["accessToken"]
    /\ IF last.op = "response" \/ ~HadCookie
       THEN /\ Did("cookies.put")
            /\ DefaultCookieKey \in DOMAIN cookies
            /\ At(Split(atob(cookies[DefaultCookieKey].value), ":"), 0)
                 = this["accessToken"]
       ELSE ~Did("cookies.put") /\ cookies = B.cookies

C3_Witness ==
  /\ last.op = "login"
  /\ Did("this.accessToken=")
  /\ HadCookie
  /\ this["accessToken"] = Tok1

\* C4: with a cached token, login resolves at once and touches nothing:
\* no cookie read or written, no hash read or cleared, no header change,
\* no navigation, no request; the state after the call is the state before.
C4_CachedFastPath ==
  (IsLoginCall /\ HadToken /\ ~LastMissingUserPass) =>
    /\ last.promise = "resolved"
    /\ ~last.threw
    /\ last.effects = <<"resolve">>
    /\ last.sent = <<>>
    /\ NothingChanged

C4_Witness ==
  /\ IsLoginCall
  /\ HadToken
  /\ ~LastMissingUserPass
  /\ last.promise = "resolved"
  /\ Len(promises) = 2
  /\ promises[1].state = "resolved"

\* a call of login that finds no cached token and the cookie of
\* (tok1, bearer, read)
C5Case ==
  /\ IsLoginCall
  /\ ~LastMissingUserPass
  /\ ~HadToken
  /\ HadCookie
  /\ B.cookies[DefaultCookieKey].value = CookieTok1

\* C5 as stated: the in-memory credential then holds the access token, the
\* token type and the scope of the cookie, and the header is 'Bearer tok1'.
C5_StoreAdoptsThreeFields ==
  C5Case =>
    /\ last.promise = "resolved"
    /\ Get(this, "accessToken") = Tok1
    /\ Get(this, "tokenType") = Bearer
    /\ Get(this, "scope") = Read
    /\ http.Authorization = BearerTok1

\* C5 amended: login resolves, the instance holds the access token of the
\* cookie and nothing else of it (token type and scope are not kept), and
\* the header is 'Bearer tok1'.
C5_StoreAdoptsAccessToken ==
  C5Case =>
    /\ last.promise = "resolved"
    /\ Get(this, "accessToken") = Tok1
    /\ DOMAIN this = DOMAIN B.this \cup {"accessToken"}
    /\ \A k \in DOMAIN B.this \ {"accessToken"} : this[k] = B.this[k]
    /\ http.Authorization = BearerTok1

C5_Witness == C5Case /\ last.promise = "resolved" /\ last.effects[1] = "cookies.get"

\* a call of login that finds no cached token, no cookie, and access_token
\* in the hash
C6Case ==
  /\ IsLoginCall
  /\ ~LastMissingUserPass
  /\ ~HadToken
  /\ ~HadCookie
  /\ B.hash \in AuthFragments

\* C6: login then resolves, the hash is empty afterwards and the token is
\* committed: tok2 in memory, a cookie that encodes it, 'Bearer tok2' as
\* default header.
C6_HashTokenCommitted ==
  C6Case =>
    /\ last.promise = "resolved"
    /\ hash = <<>>
    /\ Get(this, "accessToken") = Tok2
    /\ Did("cookies.put")
    /\ CookiesGet(cookies, now * 1000, DefaultCookieKey)
         = IF B.hash = HashTok2 THEN CookieTok2 ELSE CookieTok2Read
    /\ http.Authorization = BearerTok2

C6_Witness ==
  /\ C6Case
  /\ B.hash = HashTok2Slash
  /\ last.promise = "resolved"
  /\ hash = <<>>

\* C7: in try-mode, with nothing cached, stored or in the hash, the promise
\* is rejected, there is no navigation and no request, and the credential,
\* the cookies, the header and the URL stay as they were.
C7_TryLoginRejects ==
  (IsLoginCall /\ last.isTry /\ ~HadToken /\ ~HadCookie /\ B.hash = <<>>) =>
    /\ last.promise = "rejected"
    /\ ~LastMissingUserPass => last.reason = ""
    /\ ~Did("location.href=")
    /\ ~Did("location.reload")
    /\ ~Did("$http")
    /\ last.sent = <<>>
    /\ NothingChanged

C7_Witness ==
  /\ last.op = "tryLogin"
  /\ last.type = TYPE_IMPLICIT
  /\ ~HadToken
  /\ ~HadCookie
  /\ B.hash = <<>>
  /\ last.promise = "rejected"

\* C8: login(Implicit) outside try-mode, with nothing cached, stored or in
\* the hash, navigates once, to the authorization URL of the server with
\* response_type=token, the client id and the encoded page URL, and sends
\* no token request.
C8_ImplicitRedirects ==
  (/\ IsLoginCall
   /\ ~last.isTry
   /\ last.type = TYPE_IMPLICIT
   /\ ~HadToken
   /\ ~HadCookie
   /\ B.hash \in {<<>>, HashOther}) =>
    /\ Count("location.href=") = 1
    /\ ~Did("location.reload")
    /\ nav = IF B.hash = <<>> THEN AuthorizeUrlPlain ELSE AuthorizeUrlTop
    /\ ~Did("$http")
    /\ last.sent = <<>>

C8_Witness ==
  /\ last.op = "login"
  /\ ~last.isTry
  /\ last.type = TYPE_IMPLICIT
  /\ B.hash = HashOther
  /\ nav = AuthorizeUrlTop

\* C9: logout leaves the in-memory credential unset and the cookie absent
\* and asks for one page reload.
C9_Logout ==
  last.op = "logout" =>
    /\ ~Truthy(Get(this, "accessToken"))
    /\ DefaultCookieKey \notin DOMAIN cookies
    /\ Count("location.reload") = 1
    /\ ~Did("location.href=")
    /\ nav = <<"<reload>">>

C9_Witness ==
  /\ last.op = "logout"
  /\ HadToken
  /\ HadCookie
  /\ DefaultCookieKey \notin DOMAIN cookies

\* C10: login with TYPE_USER_CREDENTIALS and no user name or no password is
\* rejected at once with the missing-credentials message and nothing else
\* happens, whatever the state and in try-mode too.
C10_MissingUserPassRejected ==
  (IsLoginCall /\ LastMissingUserPass) =>
    /\ last.promise = "rejected"
    /\ last.reason = MsgNoUserPass
    /\ last.effects = <<"reject">>
    /\ last.sent = <<>>
    /\ NothingChanged

C10_Witness ==
  /\ last.op = "tryLogin"
  /\ LastMissingUserPass
  /\ HadToken
  /\ last.promise = "rejected"

\* 'http://s/oauth/token', and 'Basic ' with btoa('cid:s')
TokenUrl ==
  <<"h", "t", "t", "p", ":", "/", "/", "s", "/", "o", "a", "u", "t", "h",
    "/", "t", "o", "k", "e", "n">>
BasicCidS ==
  <<"B", "a", "s", "i", "c", " ", "Y", "2", "l", "k", "O", "n", "M", "=">>

\* C11: a ClientCredentials or UserCredentials login outside try-mode, with
\* the secret set and no token in cache, cookies or hash, returns its
\* promise and sends one POST to the token URL of this instance, with Basic
\* authentication of this instance's client id and secret and a body of
\* grant_type, plus user name and password for UserCredentials.
C11_ExchangeRequest ==
  (ExchangeCase /\ HadSecret) =>
    /\ ~last.threw
    /\ Len(last.sent) = 1
    /\ last.sent[1].method = "POST"
    /\ last.sent[1].url = TokenUrl
    /\ last.sent[1].Authorization = BasicCidS
    /\ Get(last.sent[1].data, K_grant_type) = last.type
    /\ last.type = TYPE_USER_CREDENTIALS =>
         /\ Get(last.sent[1].data, K_username) = last.username
         /\ Get(last.sent[1].data, K_password) = last.password

\* a call of login that finds no cached token, a cookie, and access_token
\* in the hash
C16Case ==
  /\ IsLoginCall
  /\ ~LastMissingUserPass
  /\ ~HadToken
  /\ HadCookie
  /\ B.hash \in AuthFragments

\* C16: the sources are tried in the order cache, cookies, hash, and the
\* first that gives a token ends the call: a cached token is taken without
\* reading the cookies; with a cookie and access_token in the hash the
\* token of the cookie is taken, the hash is neither read nor cleared and
\* no cookie is written; the hash is read after the cookies; and in
\* try-mode the promise is rejected before any redirect or token request.
C16_SourceOrder ==
  /\ (IsLoginCall /\ ~LastMissingUserPass /\ HadToken) =>
       (~Did("cookies.get") /\ ~Did("location.hash") /\ last.promise = "resolved")
  /\ C16Case =>
       /\ last.promise = "resolved"
       /\ Get(this, "accessToken")
            = At(Split(atob(B.cookies[DefaultCookieKey].value), ":"), 0)
       /\ hash = B.hash
       /\ cookies = B.cookies
       /\ last.effects = <<"cookies.get", "this.accessToken=", "http.defaults", "resolve">>
  /\ (IsLoginCall /\ Did("location.hash")) =>
       (last.effects[1] = "cookies.get" /\ last.effects[2] = "location.hash")
  /\ (IsLoginCall /\ last.isTry /\ ~LastMissingUserPass /\ ~HadToken /\ ~HadCookie
      /\ B.hash \in {<<>>, HashOther}) =>
       /\ last.promise = "rejected"
       /\ last.effects[Len(last.effects)] = "reject"
       /\ ~Did("location.href=")
       /\ ~Did("$http")
       /\ ~Did("console.error")
       /\ last.sent = <<>>
       /\ nav = B.nav

C16_Witness ==
  /\ C16Case
  /\ B.hash = HashTok2
  /\ hash = HashTok2
  /\ Get(this, "accessToken") = Tok1
  /\ last.promise = "resolved"

\* C17: the Implicit cycle ends.  A login on a page whose hash carries
\* access_token resolves without navigation or reload and leaves a token
\* in memory; when it takes the token of the hash, the hash is empty
\* afterwards and the cookie is written; a login that finds a cached token
\* or a cookie resolves without reading the hash and without navigation;
\* with an empty hash the hash branch is not entered.
C17_CycleTerminates ==
  /\ (IsLoginCall /\ ~LastMissingUserPass /\ B.hash \in AuthFragments) =>
       /\ last.promise = "resolved"
       /\ nav = B.nav
       /\ ~Did("location.href=")
       /\ ~Did("location.reload")
       /\ Truthy(Get(this, "accessToken"))
  /\ (IsLoginCall /\ Did("decodeHash") /\ last.promise = "resolved") =>
       /\ hash = <<>>
       /\ Truthy(CookiesGet(cookies, now * 1000, DefaultCookieKey))
  /\ (IsLoginCall /\ ~LastMissingUserPass /\ (HadToken \/ HadCookie)) =>
       /\ last.promise = "resolved"
       /\ ~Did("decodeHash")
       /\ ~Did("location.href=")
       /\ nav = B.nav
  /\ (IsLoginCall /\ B.hash = <<>>) => ~Did("decodeHash")

\* after the return from the authorization server with
\* '#/access_token=tok2...' the first login took the token of the hash and
\* the second resolves from the cache
C17_Witness ==
  /\ last.op = "login"
  /\ last.type = TYPE_IMPLICIT
  /\ HadToken
  /\ Len(promises) = 2
  /\ promises[1].state = "resolved"
  /\ promises[2].state = "resolved"
  /\ Get(this, "accessToken") = Tok2
  /\ hash = <<>>
  /\ nav = Undefined
  /\ DefaultCookieKey \in DOMAIN cookies
  /\ cookies[DefaultCookieKey].value = CookieTok2Read

\* C18: token requests are not de-duplicated.  Every ClientCredentials or
\* UserCredentials login (secret set) that finds no token in cache, cookies
\* or hash sends a request of its own and stays pending on it, also while
\* an earlier request is in flight; a login made once a token is cached
\* sends no request and resolves.
C18_NoDeduplication ==
  /\ (ExchangeCase /\ HadSecret) =>
       /\ ~last.threw
       /\ Len(last.sent) = 1
       /\ requests # <<>>
       /\ requests[Len(requests)].promise = last.index
       /\ promises[last.index].state = "pending"
       /\ Cardinality({k \in 1..Len(requests) : requests[k].promise = last.index}) = 1
  /\ (IsLoginCall /\ ~LastMissingUserPass /\ HadToken) =>
       /\ last.sent = <<>>
       /\ ~Did("$http")
       /\ last.promise = "resolved"

\* C19: in every reachable state, when a token is held in memory the
\* default Authorization header is 'Bearer ' and that token, credentialed
\* requests are on, and the cookie, while it has not expired, encodes that
\* token.
C19_ThreeAgree ==
  Truthy(Get(this, "accessToken")) =>
    /\ http.Authorization = BearerPrefix \o this["accessToken"]
    /\ http.withCredentials
    /\ Truthy(CookiesGet(cookies, now * 1000, DefaultCookieKey)) =>
         At(Split(atob(CookiesGet(cookies, now * 1000, DefaultCookieKey)), ":"), 0)
           = this["accessToken"]

\* the second of two token responses has been committed over the first
C19_Witness ==
  /\ last.op = "response"
  /\ Len(promises) = 2
  /\ promises[1].state = "resolved"
  /\ promises[2].state = "resolved"
  /\ Truthy(Get(B.this, "accessToken"))
  /\ Get(this, "accessToken") # Get(B.this, "accessToken")
  /\ Truthy(CookiesGet(cookies, now * 1000, DefaultCookieKey))

\* C20: within a page life the default Authorization header and the
\* credentialed-requests flag change only in an operation that runs
\* setHttpDefault, which only login (from cookie or hash) and a token
\* response do, and they are never taken back: logout leaves them as they
\* were, so the header still carries the logged-out token while the reload
\* is pending.
C20_HeaderOnlyBySetHttpDefault ==
  /\ (last.op # "load" /\ http # B.http) => Did("http.defaults")
  /\ Did("http.defaults") =>
       /\ last.op \in {"login", "tryLogin", "response"}
       /\ http.withCredentials
       /\ http.Authorization # Undefined
  /\ (last.op # "load" /\ B.http.withCredentials) => http.withCredentials
  /\ (last.op # "load" /\ B.http.Authorization # Undefined) =>
       http.Authorization # Undefined
  /\ last.op = "logout" => http = B.http

C20_Witness ==
  /\ last.op = "logout"
  /\ HadToken
  /\ ~Truthy(Get(this, "accessToken"))
  /\ nav = <<"<reload>">>
  /\ http.Authorization = BearerPrefix \o B.this["accessToken"]
  /\ http.withCredentials

(***************************************************************************)
(* The constructor, decodeHash and the saveToken encoding on their own:    *)
(* each behaviour takes one input and applies one of them to it.           *)
(***************************************************************************)

\* the strings of at most n characters over chars
Strings(chars, n) == UNION {[1..k -> chars] : k \in 0..n}

\* the characters of the token fields: a plain one, the padding character
\* of base64 and the separator of the cookie
FieldChars == {"a", "=", ":"}
\* the characters of the hashes: the three decodeHash looks for and a plain one
HashChars == {"/", "&", "=", "k"}
\* the characters of the server URLs
ServerChars == {"h", "/"}

\* data.access_token, data.token_type and data.scope given to saveToken
FieldInputs ==
  LET S == Strings(FieldChars, MaxFieldLen) IN S \X S \X S
\* the hash given to decodeHash
HashInputs == Strings(HashChars, MaxHashLen)
\* server and clientId given to new OAuth(server, clientId), left out or not
ConstructorInputs ==
  (Strings(ServerChars, MaxServerLen) \cup {Undefined})
    \X {Undefined, <<>>, ClientId}

\* an input waiting for the function fn, and the same once fn has returned
PureInput(fn, arg) == [op |-> "input", fn |-> fn, arg |-> arg, result |-> Undefined]
PureDone(result) == [last EXCEPT !.op = "done", !.result = result]

InitPure ==
  /\ cookies = EmptyObj
  /\ http = HttpDefaultsInit
  /\ hash = <<>>
  /\ nav = Undefined
  /\ now = 0
  /\ promises = <<>>
  /\ requests = <<>>
  /\ \/ /\ this = EmptyObj
        /\ \E arg \in ConstructorInputs : last = PureInput("constructor", arg)
     \/ /\ \E server \in ServerInputs :
             this = Constructor(server, ClientId, Undefined).this
        /\ \/ \E arg \in HashInputs : last = PureInput("decodeHash", arg)
           \/ \E arg \in FieldInputs : last = PureInput("saveToken", arg)

\* new OAuth(server, clientId): this stays without instance when it throws
ConstructorCall ==
  /\ last.op = "input" /\ last.fn = "constructor"
  /\ LET r == Constructor(last.arg[1], last.arg[2], Undefined)
     IN  /\ this' = r.this
         /\ last' = PureDone(r)
  /\ UNCHANGED <<cookies, http, hash, nav, now, promises, requests>>

\* decodeHash(hash)
DecodeHashCall ==
  /\ last.op = "input" /\ last.fn = "decodeHash"
  /\ last' = PureDone(decodeHash(last.arg))
  /\ UNCHANGED <<this, cookies, http, hash, nav, now, promises, requests>>

\* saveToken(data), then the cookie it wrote read and decoded as login does
SaveTokenCall ==
  /\ last.op = "input" /\ last.fn = "saveToken"
  /\ LET data == TokenData(last.arg[1], last.arg[2], last.arg[3], <<"1">>)
         st == saveToken(World, data)
         cookie == CookiesGet(st.cookies, st.now * 1000,
                              Get(st.this, "COOKIE_KEY"))
     IN  /\ cookies' = st.cookies
         /\ http' = st.http
         /\ last' = PureDone(IF Truthy(cookie) THEN DecodeCookie(cookie)
                             ELSE Undefined)
  /\ UNCHANGED <<this, hash, nav, now, promises, requests>>

NextPure == ConstructorCall \/ DecodeHashCall \/ SaveTokenCall

SpecPure == InitPure /\ [][NextPure]_vars

PureDid(fn) == last.op = "done" /\ last.fn = fn

(***************************************************************************)
(* C12: a triple of strings without ':' written by saveToken is decoded    *)
(* from the cookie as the same three strings.                              *)
(***************************************************************************)

NoColon(s) == \A i \in 1..Len(s) : s[i] # ":"

\* C12: when none of access token, token type and scope holds a ':',
\* decoding the cookie saveToken wrote (base64-decode, split on ':') gives
\* exactly these three strings, in this order
C12_RoundTrip ==
  (PureDid("saveToken") /\ \A i \in 1..3 : NoColon(last.arg[i]))
    => /\ Len(last.result) = 3
       /\ \A i \in 1..3 : last.result[i] = last.arg[i]

\* a round trip of three different fields, one of them empty and one made
\* of the base64 padding character
C12_Witness ==
  /\ PureDid("saveToken")
  /\ last.arg = <<<<"a", "=">>, <<>>, <<"=", "=">>>>
  /\ last.result = last.arg
  /\ Get(this, "COOKIE_KEY") \in DOMAIN cookies

(***************************************************************************)
(* C13: decodeHash against the decoding that splits each piece on its      *)
(* first '=' only.                                                         *)
(***************************************************************************)

\* the piece split on its first '=': the key before it and the whole of
\* what follows it, or the piece as key and no value when it holds no '='
FirstEqKey(piece) ==
  IF Has(piece, "=") THEN SubSeq(piece, 1, IndexOf(piece, "=") - 1) ELSE piece
FirstEqValue(piece) ==
  IF Has(piece, "=")
  THEN SubSeq(piece, IndexOf(piece, "=") + 1, Len(piece))
  ELSE Undefined

RECURSIVE FirstEqPieces(_, _)
FirstEqPieces(pieces, hashObj) ==
  IF pieces = <<>> THEN hashObj
  ELSE FirstEqPieces(Tail(pieces),
                     Put(hashObj, FirstEqKey(pieces[1]), FirstEqValue(pieces[1])))

FirstEqDecode(h) ==
  IF h = <<>> THEN EmptyObj
  ELSE FirstEqPieces(Split(IF h[1] = "/" THEN Tail(h) ELSE h, "&"), EmptyObj)

\* C13: decodeHash strips one leading '/', splits the rest on '&', splits
\* each piece on its first '=' only and maps the key to the whole remainder,
\* so that a value holding '=' is kept entire; the empty hash gives the
\* empty mapping
C13_DecodeHashFirstEq ==
  PureDid("decodeHash") => last.result = FirstEqDecode(last.arg)

\* the same for the hashes in which no piece holds a second '='
C13_DecodeHashOneEq ==
  (PureDid("decodeHash") /\ last.result # FirstEqDecode(last.arg))
    => \E piece \in {Split(last.arg, "&")[i] : i \in 1..Len(Split(last.arg, "&"))} :
         Len(Split(piece, "=")) > 2

(***************************************************************************)
(* C14: the server base the constructor sets.                              *)
(***************************************************************************)

\* the string without the '/' characters at its end
RECURSIVE StripSlashes(_)
StripSlashes(s) ==
  IF s # <<>> /\ s[Len(s)] = "/" THEN StripSlashes(SubSeq(s, 1, Len(s) - 1))
  ELSE s

\* a construction on a non-empty server URL and a non-empty client id
C14Case ==
  PureDid("constructor") /\ Truthy(last.arg[1]) /\ Truthy(last.arg[2])

\* C14: for a non-empty server URL and client id, the server base is the
\* input ending with exactly one '/' followed by 'oauth/', also when the
\* input ends with more than one '/'
C14_ExactlyOneSlash ==
  C14Case =>
    /\ ~last.result.threw
    /\ Get(this, "SERVER") = StripSlashes(last.arg[1]) \o <<"/">> \o OAuthSegment

\* C14 as the constructor does it: the server base starts with the whole
\* input, a single '/' follows it only when the input does not end with
\* '/', and 'oauth/' ends it; an input ending with at most one '/' gives
\* exactly one '/' before 'oauth/', an input ending with more keeps them all
C14_SlashAddedWhenMissing ==
  C14Case =>
    LET server == last.arg[1]
        n == Len(server)
        base == Get(this, "SERVER")
        added == IF server[n] = "/" THEN 0 ELSE 1
    IN  /\ ~last.result.threw
        /\ this = last.result.this
        /\ Get(this, "CLIENT_ID") = last.arg[2]
        /\ Len(base) = n + added + Len(OAuthSegment)
        /\ SubSeq(base, 1, n) = server
        /\ base[Len(base) - Len(OAuthSegment)] = "/"
        /\ SubSeq(base, Len(base) - Len(OAuthSegment) + 1, Len(base)) = OAuthSegment
        /\ Len(StripSlashes(server)) >= n - 1
             => base = StripSlashes(server) \o <<"/">> \o OAuthSegment

\* a server URL ending with two '/' constructed: both are kept
C14_Witness ==
  /\ C14Case
  /\ last.arg[1] = <<"h", "/", "/">>
  /\ Get(this, "SERVER") = <<"h", "/", "/">> \o OAuthSegment

(***************************************************************************)
(* C15: construction without server URL or without client id.              *)
(***************************************************************************)

\* C15: when the server URL or the client id is empty or left out,
\* construction throws an error and no instance comes out of it
C15_ConstructionFails ==
  (PureDid("constructor") /\ (~Truthy(last.arg[1]) \/ ~Truthy(last.arg[2])))
    => /\ last.result.threw
       /\ last.result.message \in {"OAuth: please provide the server URL",
                                   "OAuth: please provide the client ID"}
       /\ last.result.this = EmptyObj
       /\ this = EmptyObj

\* a construction with a server URL and an empty client id has thrown
C15_Witness ==
  /\ PureDid("constructor")
  /\ last.arg = <<<<"h", "/">>, <<>>>>
  /\ last.result.threw
  /\ last.result.message = "OAuth: please provide the client ID"
  /\ this = EmptyObj

====
